---- MODULE Spec2Model ----
(***************************************************************************)
(* Model of scripts/gerar_dados_cnes.py: the CNES generator.               *)
(*                                                                         *)
(*   campo         the Field Resolver                                      *)
(*   processar_df  the Region Processor (table filters + row normalizer)   *)
(*   main          the orchestrator loop over UFS and the _meta.json write *)
(*                                                                         *)
(* Data representation                                                     *)
(*   str            a TLA+ string (Len, SubSeq and \o act on characters)   *)
(*   cell           <<>> for a null (None / NaN: pd.isna is true), <<s>>   *)
(*                  for the string s                                       *)
(*   row            a function from column names to cells                  *)
(*   DataFrame      [columns |-> set of names, rows |-> sequence of rows]  *)
(*   download_uf    an external collaborator: its result is drawn          *)
(*                  nondeterministically (None or a DataFrame)             *)
(***************************************************************************)
EXTENDS Integers, Sequences, FiniteSets, TLC

VARIABLES
    pc,          \* position of main(): "loop" or "done"; "idle" outside a run
    idx,         \* position of the for-loop in UFS (1-based index of the next uf)
    resumo,      \* dict uf -> count, as a function on the ufs inserted so far
    falhas,      \* list of ufs whose download returned None
    disco,       \* data/cnes/{UF}.json: uf -> <<>> (no file) or <<registros>>
    disco0,      \* the content of data/cnes before the run (history)
    retornos,    \* what download_uf returned for each uf visited: <<>> or <<df>> (history)
    escritos,    \* ufs whose output file was opened for writing in this run (history)
    visitados,   \* ufs for which "[uf] Baixando..." was printed, in order (history)
    meta,        \* data/cnes/_meta.json: <<>> (not written) or <<meta dict>>
    df_in,       \* argument of one processar_df call: <<>> or <<DataFrame>>
    df_st,       \* the values df took inside that call, in order
    df_out,      \* its result: <<>> (not returned yet) or <<registros>>
    campo_in,    \* arguments of one campo call: <<>> or <<[row, candidatos, default]>>
    campo_out    \* its result: <<>> (not returned yet) or <<str>>

vars == << pc, idx, resumo, falhas, disco, disco0, retornos, escritos, visitados,
           meta, df_in, df_st, df_out, campo_in, campo_out >>

mainVars == << pc, idx, resumo, falhas, disco, disco0, retornos, escritos,
               visitados, meta >>
procVars == << df_in, df_st, df_out >>
campoVars == << campo_in, campo_out >>

(***************************************************************************)
(* Python str methods used by the script                                   *)
(***************************************************************************)

\* A str is modelled by a TLA+ string. A TLA+ string holds the characters
\* U+0001 to U+00FF (the grave accent apart) and, above them, the characters
\* of the Basic Multilingual Plane whose code point ends in a byte of 80 to
\* FF; the tables below are those of Python 3.11 (Unicode 14.0) over these
\* characters.

\* The characters c with c.isspace(): what str.strip() removes.
WHITESPACE ==
       "\t\n\f\r   "

\* The characters c with c.isdigit().
DIGITS ==
       "0123456789²³¹۰۱۲۳۴۵۶۷۸۹߀߁߂߃߄߅߆߇߈߉০১২৩৪৫৬৭৮৯૦૧૨૩૪"
    \o "૫૬૭૮૯௦௧௨௩௪௫௬௭௮௯೦೧೨೩೪೫೬೭೮೯෦෧෨෩෪෫෬෭෮෯໐໑໒໓໔໕໖໗໘໙႐႑႒"
    \o "႓႔႕႖႗႘႙០១២៣៤៥៦៧៨៩᧐᧑᧒᧓᧔᧕᧖᧗᧘᧙᧚᪀᪁᪂᪃᪄᪅᪆᪇᪈᪉᪐᪑᪒᪓᪔᪕᪖᪗᪘᪙"
    \o "᮰᮱᮲᮳᮴᮵᮶᮷᮸᮹₀₁₂₃₄₅₆₇₈₉⒈⒉⒊⒋⒌⒍⒎⒏⒐⓪⓵⓶⓷⓸⓹⓺⓻⓼⓽⓿➀➁➂➃➄➅➆➇"
    \o "➈➊➋➌➍➎➏➐➑➒꣐꣑꣒꣓꣔꣕꣖꣗꣘꣙꧐꧑꧒꧓꧔꧕꧖꧗꧘꧙꧰꧱꧲꧳꧴꧵꧶꧷꧸꧹꯰꯱꯲꯳꯴꯵꯶꯷"
    \o "꯸꯹"

\* The cased characters (lowercase, uppercase or titlecase).
CASED ==
       "ABCDEFGHIJKLMNOPQRSTUVWXYZabcdefghijklmnopqrstuv"
    \o "wxyzªµºÀÁÂÃÄÅÆÇÈÉÊËÌÍÎÏÐÑÒÓÔÕÖØÙÚÛÜÝÞßàáâãäåæçèé"
    \o "êëìíîïðñòóôõöøùúûüýþÿƀƁƂƃƄƅƆƇƈƉƊƋƌƍƎƏƐƑƒƓƔƕƖƗƘƙƚ"
    \o "ƛƜƝƞƟƠơƢƣƤƥƦƧƨƩƪƫƬƭƮƯưƱƲƳƴƵƶƷƸƹƺƼƽƾƿǄǅǆǇǈǉǊǋǌǍǎǏ"
    \o "ǐǑǒǓǔǕǖǗǘǙǚǛǜǝǞǟǠǡǢǣǤǥǦǧǨǩǪǫǬǭǮǯǰǱǲǳǴǵǶǷǸǹǺǻǼǽǾǿ"
    \o "ʀʁʂʃʄʅʆʇʈʉʊʋʌʍʎʏʐʑʒʓʕʖʗʘʙʚʛʜʝʞʟʠʡʢʣʤʥʦʧʨʩʪʫʬʭʮʯʰ"
    \o "ʱʲʳʴʵʶʷʸˀˁˠˡˢˣˤΆΈΉΊΌΎΏΐΑΒΓΔΕΖΗΘΙΚΛΜΝΞΟΠΡΣΤΥΦΧΨΩΪ"
    \o "ΫάέήίΰαβγδεζηθικλμνξοπρςστυφχψωϊϋόύώϏϐϑϒϓϔϕϖϗϘϙϚ"
    \o "ϛϜϝϞϟϠϡϢϣϤϥϦϧϨϩϪϫϬϭϮϯϰϱϲϳϴϵϷϸϹϺϻϼϽϾϿҀҁҊҋҌҍҎҏҐґҒғ"
    \o "ҔҕҖҗҘҙҚқҜҝҞҟҠҡҢңҤҥҦҧҨҩҪҫҬҭҮүҰұҲҳҴҵҶҷҸҹҺһҼҽҾҿӀӁӂӃ"
    \o "ӄӅӆӇӈӉӊӋӌӍӎӏӐӑӒӓӔӕӖӗӘәӚӛӜӝӞӟӠӡӢӣӤӥӦӧӨөӪӫӬӭӮӯӰӱӲӳ"
    \o "ӴӵӶӷӸӹӺӻӼӽӾӿրցւփքօֆևֈႠႡႢႣႤႥႦႧႨႩႪႫႬႭႮႯႰႱႲႳႴႵႶႷႸႹႺ"
    \o "ႻႼႽႾႿჀჁჂჃჄჅჇჍაბგდევზთიკლმნოპჟრსტუფქღყშჩცძწჭხჯჰჱჲ"
    \o "ჳჴჵჶჷჸჹჺჽჾჿᎠᎡᎢᎣᎤᎥᎦᎧᎨᎩᎪᎫᎬᎭᎮᎯᎰᎱᎲᎳᎴᎵᎶᎷᎸᎹᎺᎻᎼᎽᎾᎿᏀᏁᏂᏃᏄ"
    \o "ᏅᏆᏇᏈᏉᏊᏋᏌᏍᏎᏏᏐᏑᏒᏓᏔᏕᏖᏗᏘᏙᏚᏛᏜᏝᏞᏟᏠᏡᏢᏣᏤᏥᏦᏧᏨᏩᏪᏫᏬᏭᏮᏯᏰᏱᏲᏳᏴ"
    \o "ᏵᏸᏹᏺᏻᏼᏽᲀᲁᲂᲃᲄᲅᲆᲇᲈᲐᲑᲒᲓᲔᲕᲖᲗᲘᲙᲚᲛᲜᲝᲞᲟᲠᲡᲢᲣᲤᲥᲦᲧᲨᲩᲪᲫᲬᲭᲮᲯ"
    \o "ᲰᲱᲲᲳᲴᲵᲶᲷᲸᲹᲺᲽᲾᲿᶀᶁᶂᶃᶄᶅᶆᶇᶈᶉᶊᶋᶌᶍᶎᶏᶐᶑᶒᶓᶔᶕᶖᶗᶘᶙᶚᶛᶜᶝᶞᶟᶠᶡ"
    \o "ᶢᶣᶤᶥᶦᶧᶨᶩᶪᶫᶬᶭᶮᶯᶰᶱᶲᶳᶴᶵᶶᶷᶸᶹᶺᶻᶼᶽᶾᶿẀẁẂẃẄẅẆẇẈẉẊẋẌẍẎẏẐẑ"
    \o "ẒẓẔẕẖẗẘẙẚẛẜẝẞẟẠạẢảẤấẦầẨẩẪẫẬậẮắẰằẲẳẴẵẶặẸẹẺẻẼẽẾếỀề"
    \o "ỂểỄễỆệỈỉỊịỌọỎỏỐốỒồỔổỖỗỘộỚớỜờỞởỠỡỢợỤụỦủỨứỪừỬửỮữỰự"
    \o "ỲỳỴỵỶỷỸỹỺỻỼỽỾỿᾀᾁᾂᾃᾄᾅᾆᾇᾈᾉᾊᾋᾌᾍᾎᾏᾐᾑᾒᾓᾔᾕᾖᾗᾘᾙᾚᾛᾜᾝᾞᾟᾠᾡ"
    \o "ᾢᾣᾤᾥᾦᾧᾨᾩᾪᾫᾬᾭᾮᾯᾰᾱᾲᾳᾴᾶᾷᾸᾹᾺΆᾼιῂῃῄῆῇῈΈῊΉῌῐῑῒΐῖῗῘῙῚΊῠ"
    \o "ῡῢΰῤῥῦῧῨῩῪΎῬῲῳῴῶῷῸΌῺΏῼₐₑₒₓₔₕₖₗₘₙₚₛₜↃↄⒶⒷⒸⒹⒺⒻⒼⒽⒾⒿⓀ"
    \o "ⓁⓂⓃⓄⓅⓆⓇⓈⓉⓊⓋⓌⓍⓎⓏⓐⓑⓒⓓⓔⓕⓖⓗⓘⓙⓚⓛⓜⓝⓞⓟⓠⓡⓢⓣⓤⓥⓦⓧⓨⓩⲀⲁⲂⲃⲄⲅⲆ"
    \o "ⲇⲈⲉⲊⲋⲌⲍⲎⲏⲐⲑⲒⲓⲔⲕⲖⲗⲘⲙⲚⲛⲜⲝⲞⲟⲠⲡⲢⲣⲤⲥⲦⲧⲨⲩⲪⲫⲬⲭⲮⲯⲰⲱⲲⲳⲴⲵⲶ"
    \o "ⲷⲸⲹⲺⲻⲼⲽⲾⲿⳀⳁⳂⳃⳄⳅⳆⳇⳈⳉⳊⳋⳌⳍⳎⳏⳐⳑⳒⳓⳔⳕⳖⳗⳘⳙⳚⳛⳜⳝⳞⳟⳠⳡⳢⳣⳤⳫⳬ"
    \o "ⳭⳮⳲⳳꚀꚁꚂꚃꚄꚅꚆꚇꚈꚉꚊꚋꚌꚍꚎꚏꚐꚑꚒꚓꚔꚕꚖꚗꚘꚙꚚꚛꚜꚝꞀꞁꞂꞃꞄꞅꞆꞇꞋꞌꞍꞎꞐꞑ"
    \o "ꞒꞓꞔꞕꞖꞗꞘꞙꞚꞛꞜꞝꞞꞟꞠꞡꞢꞣꞤꞥꞦꞧꞨꞩꞪꞫꞬꞭꞮꞯꞰꞱꞲꞳꞴꞵꞶꞷꞸꞹꞺꞻꞼꞽꞾꞿꟀꟁ"
    \o "ꟂꟃꟄꟅꟆꟇꟈꟉꟊꟐꟑꟓꟕꟖꟗꟘꟙꟵꟶꟸꟹꟺꮀꮁꮂꮃꮄꮅꮆꮇꮈꮉꮊꮋꮌꮍꮎꮏꮐꮑꮒꮓꮔꮕꮖꮗꮘꮙ"
    \o "ꮚꮛꮜꮝꮞꮟꮠꮡꮢꮣꮤꮥꮦꮧꮨꮩꮪꮫꮬꮭꮮꮯꮰꮱꮲꮳꮴꮵꮶꮷꮸꮹꮺꮻꮼꮽꮾꮿ"

\* The case-ignorable characters, which str.lower() skips around a capital sigma.
IGNORABLE ==
       "'.:^¨­¯´·¸ʰʱʲʳʴʵʶʷʸʹʺʻʼʽʾʿˀˁ˂˃˄˅ˆˇˈˉˊˋˌˍˎˏːˑ˒˓˔˕"
    \o "˖˗˘˙˚˛˜˝˞˟ˠˡˢˣˤ˥˦˧˨˩˪˫ˬ˭ˮ˯˰˱˲˳˴˵˶˷˸˹˺˻˼˽˾˿΄΅·҃҄҅"
    \o "҆҇҈҉ְֱֲֳִֵֶַָֹֺֻּ֑֖֛֢֣֤֥֦֧֪֚֭֮֒֓֔֕֗֘֙֜֝֞֟֠֡֨֩֫֬֯"
    \o "ׇֽֿׁׂׅׄ״ۖۗۘۙۚۛۜ۝ۣ۟۠ۡۢۤۥۦ۪ۭۧۨ۫۬ަާިީުޫެޭޮޯް߫߬߭߮߯߰߱"
    \o "߲߳ߴߵߺ߽࢈࢐࢑࢙࢚࢛࢘࢜࢝࢞࢟ࣉ࣏࣐࣑࣒࣓࣊࣋࣌࣍࣎ࣔࣕࣖࣗࣘࣙࣚࣛࣜࣝࣞࣟ࣠࣡࣢ࣣࣦࣤࣥࣧ"
    \o "ࣰࣱࣲࣩ࣭࣮࣯ࣶࣹࣺࣨ࣪࣫࣬ࣳࣴࣵࣷࣸࣻࣼࣽࣾࣿঁ়ুূৃৄ্ৢৣ৾ઁં઼ુૂૃૄૅેૈ્ૢૣૺ"
    \o "ૻૼ૽૾૿ஂீ்ಁ಼ಿೆೌ್ೢೣඁ්ිීුූັິີຶື຺ຸູົຼໆ່້໊໋໌ໍ྄ཱྀྀྂྃ྆྇ྍྎ"
    \o "ྏྐྑྒྒྷྔྕྖྗྙྚྛྜྜྷྞྟྠྡྡྷྣྤྥྦྦྷྨྩྪྫྫྷྭྮྯྰྱྲླྴྵྶྷྸྐྵྺྻྼ࿆ႂႅ"
    \o "ႆႍႝჼ឴឵ិីឹឺុូួំ៉៊់៌៍៎៏័៑្៓ៗ៝ᢅᢆᢩᪧ᪵᪶᪷᪸᪹᪺᪽᪰᪱᪲᪳᪴᪻᪼᪾ᪿᫀ"
    \o "᫃᫄᫊᫁᫂᫅᫆᫇᫈᫉᫋ᫌᫍᫎᮀᮁᮢᮣᮤᮥᮨᮩ᮫ᮬᮭ᯦ᯨᯩᯭᯯᯰᯱ᳔᳕᳖᳗᳘᳙᳜᳝᳞᳟᳐᳑᳒᳚᳛᳠"
    \o "᳢᳣᳤᳥᳦᳧᳨᳭᳴᳸᳹ᶛᶜᶝᶞᶟᶠᶡᶢᶣᶤᶥᶦᶧᶨᶩᶪᶫᶬᶭᶮᶯᶰᶱᶲᶳᶴᶵᶶᶷᶸᶹᶺᶻᶼᶽᶾᶿ"
    \o "᷐᷎᷂᷊᷏᷀᷁᷃᷄᷅᷆᷇᷈᷉᷋᷌᷑᷒ᷓᷔᷕᷖᷗᷘᷙᷚᷛᷜᷝᷞᷟᷠᷡᷢᷣᷤᷥᷦᷧᷨᷩᷪᷫᷬᷭᷮᷯ᷍"
    \o "᷺᷹᷽᷿᷷᷸ᷰᷱᷲᷳᷴ᷵᷻᷾᷶᷼᾽᾿῀῁῍῎῏῝῞῟῭΅`´῾ₐₑₒₓₔₕₖₗₘₙₚₛₜ⃒⃓⃐⃑"
    \o "⃘⃙⃚⃔⃕⃖⃗⃛⃜⃝⃞⃟⃠⃡⃢⃣⃤⃥⃦⃪⃫⃨⃬⃭⃮⃯⃧⃩⃰⳯⳰⳱ⷠⷡⷢⷣⷤⷥⷦⷧⷨⷩⷪⷫⷬⷭⷮⷯ"
    \o "゙゚ⷰⷱⷲⷳⷴⷵⷶⷷⷸⷹⷺⷻⷼⷽⷾⷿ゛゜ゝゞーヽヾꓸꓹꓺꓻꓼꓽꚜꚝꚞꚟ꛰꛱ꞈ꞉꞊ꟲꟳꟴꟸꟹ꣄ꣅ꣠"
    \o "꣡꣢꣣꣤꣥꣦꣧꣨꣩꣪꣫꣬꣭꣮꣯꣰꣱ꣿꦀꦁꦂ꦳ꦶꦷꦸꦹꦼꦽꧏꧥꧦꪴꪰꪲꪳꪷꪸꪾ꪿꫁ꫝꫬꫭꫳꫴ꫶ꯥꯨ"
    \o "꯭﮲﮳﮴﮵﮶﮷﮸﮹﮺﮻﮼﮽﮾﮿﯀﯁﯂﻿ﾞﾟ￣￹￺￻"

\* str.upper() of one character: the characters it changes into one other
\* character, and what each becomes (same position).
UPPER_DE ==
       "abcdefghijklmnopqrstuvwxyzµàáâãäåæçèéêëìíîïðñòóô"
    \o "õöøùúûüýþƃƅƈƌƒƕƙơƣƥƨƭưƴƶƹƽƿǅǆǈǉǋǌǎǐǒǔǖǘǚǜǝǟǡǣǥǧǩ"
    \o "ǫǭǯǲǳǵǹǻǽǿʀʂʃʇʈʊʋʒʝʞάέήίαβγδεζηθικλμνξοπρςστυφχψ"
    \o "ωϊϋόύώϐϑϕϖϗϙϛϝϟϡϣϥϧϩϫϭϯϰϱϲϵϸϻҁҋҍҏґғҕҗҙқҝҟҡңҥҧҩҫҭ"
    \o "үұҳҵҷҹһҽҿӂӄӆӈӊӌӎӏӑӓӕӗәӛӝӟӡӣӥӧөӫӭӯӱӳӵӷӹӻӽӿაბგდევზ"
    \o "თიკლმნოპჟრსტუფქღყშჩცძწჭხჯჰჱჲჳჴჵჶჷჸჹჺჽჾჿᏸᏹᏺᏻᏼᏽᶎẁẃ"
    \o "ẅẇẉẋẍẏẑẓẕạảấầẩẫậắằẳẵặẹẻẽếềểễệỉịọỏốồổỗộớờởỡợụủứừử"
    \o "ữựỳỵỷỹỻỽỿᾰᾱιῐῑῠῡῥↄⓐⓑⓒⓓⓔⓕⓖⓗⓘⓙⓚⓛⓜⓝⓞⓟⓠⓡⓢⓣⓤⓥⓦⓧⓨⓩⲁⲃⲅⲇ"
    \o "ⲉⲋⲍⲏⲑⲓⲕⲗⲙⲛⲝⲟⲡⲣⲥⲧⲩⲫⲭⲯⲱⲳⲵⲷⲹⲻⲽⲿⳁⳃⳅⳇⳉⳋⳍⳏⳑⳓⳕⳗⳙⳛⳝⳟⳡⳣⳬⳮ"
    \o "ⳳꚁꚃꚅꚇꚉꚋꚍꚏꚑꚓꚕꚗꚙꚛꞁꞃꞅꞇꞌꞑꞓꞔꞗꞙꞛꞝꞟꞡꞣꞥꞧꞩꞵꞷꞹꞻꞽꞿꟁꟃꟈꟊꟑꟗꟙꟶꮀ"
    \o "ꮁꮂꮃꮄꮅꮆꮇꮈꮉꮊꮋꮌꮍꮎꮏꮐꮑꮒꮓꮔꮕꮖꮗꮘꮙꮚꮛꮜꮝꮞꮟꮠꮡꮢꮣꮤꮥꮦꮧꮨꮩꮪꮫꮬꮭꮮꮯꮰ"
    \o "ꮱꮲꮳꮴꮵꮶꮷꮸꮹꮺꮻꮼꮽꮾꮿ"

UPPER_PARA ==
       "ABCDEFGHIJKLMNOPQRSTUVWXYZΜÀÁÂÃÄÅÆÇÈÉÊËÌÍÎÏÐÑÒÓÔ"
    \o "ÕÖØÙÚÛÜÝÞƂƄƇƋƑǶƘƠƢƤƧƬƯƳƵƸƼǷǄǄǇǇǊǊǍǏǑǓǕǗǙǛƎǞǠǢǤǦǨ"
    \o "ǪǬǮǱǱǴǸǺǼǾƦꟅƩꞱƮƱƲƷꞲꞰΆΈΉΊΑΒΓΔΕΖΗΘΙΚΛΜΝΞΟΠΡΣΣΤΥΦΧΨ"
    \o "ΩΪΫΌΎΏΒΘΦΠϏϘϚϜϞϠϢϤϦϨϪϬϮΚΡϹΕϷϺҀҊҌҎҐҒҔҖҘҚҜҞҠҢҤҦҨҪҬ"
    \o "ҮҰҲҴҶҸҺҼҾӁӃӅӇӉӋӍӀӐӒӔӖӘӚӜӞӠӢӤӦӨӪӬӮӰӲӴӶӸӺӼӾᲐᲑᲒᲓᲔᲕᲖ"
    \o "ᲗᲘᲙᲚᲛᲜᲝᲞᲟᲠᲡᲢᲣᲤᲥᲦᲧᲨᲩᲪᲫᲬᲭᲮᲯᲰᲱᲲᲳᲴᲵᲶᲷᲸᲹᲺᲽᲾᲿᏰᏱᏲᏳᏴᏵꟆẀẂ"
    \o "ẄẆẈẊẌẎẐẒẔẠẢẤẦẨẪẬẮẰẲẴẶẸẺẼẾỀỂỄỆỈỊỌỎỐỒỔỖỘỚỜỞỠỢỤỦỨỪỬ"
    \o "ỮỰỲỴỶỸỺỼỾᾸᾹΙῘῙῨῩῬↃⒶⒷⒸⒹⒺⒻⒼⒽⒾⒿⓀⓁⓂⓃⓄⓅⓆⓇⓈⓉⓊⓋⓌⓍⓎⓏⲀⲂⲄⲆ"
    \o "ⲈⲊⲌⲎⲐⲒⲔⲖⲘⲚⲜⲞⲠⲢⲤⲦⲨⲪⲬⲮⲰⲲⲴⲶⲸⲺⲼⲾⳀⳂⳄⳆⳈⳊⳌⳎⳐⳒⳔⳖⳘⳚⳜⳞⳠⳢⳫⳭ"
    \o "ⳲꚀꚂꚄꚆꚈꚊꚌꚎꚐꚒꚔꚖꚘꚚꞀꞂꞄꞆꞋꞐꞒꟄꞖꞘꞚꞜꞞꞠꞢꞤꞦꞨꞴꞶꞸꞺꞼꞾꟀꟂꟇꟉꟐꟖꟘꟵᎰ"
    \o "ᎱᎲᎳᎴᎵᎶᎷᎸᎹᎺᎻᎼᎽᎾᎿᏀᏁᏂᏃᏄᏅᏆᏇᏈᏉᏊᏋᏌᏍᏎᏏᏐᏑᏒᏓᏔᏕᏖᏗᏘᏙᏚᏛᏜᏝᏞᏟᏠ"
    \o "ᏡᏢᏣᏤᏥᏦᏧᏨᏩᏪᏫᏬᏭᏮᏯ"

\* str.upper() of one character: the characters it changes into several characters.
UPPER_ESPECIAL ==
       "ß" :> "SS"
    @@ "ẚ" :> "Aʾ"
    @@ "ᾲ" :> "ᾺΙ"
    @@ "ᾳ" :> "ΑΙ"
    @@ "ᾴ" :> "ΆΙ"
    @@ "ᾼ" :> "ΑΙ"
    @@ "ῂ" :> "ῊΙ"
    @@ "ῃ" :> "ΗΙ"
    @@ "ῄ" :> "ΉΙ"
    @@ "ῌ" :> "ΗΙ"
    @@ "ῲ" :> "ῺΙ"
    @@ "ῳ" :> "ΩΙ"
    @@ "ῴ" :> "ΏΙ"
    @@ "ῼ" :> "ΩΙ"

\* str.upper() of one character: the characters whose result holds a character
\* that a TLA+ string cannot hold.
UPPER_FORA ==
       "ÿƀƚƞǰʉʌΐΰϳրցւփքօֆևᲀᲁᲂᲃᲄᲅᲆᲇᲈẖẗẘẙẛᾀᾁᾂᾃᾄᾅᾆᾇᾈᾉᾊᾋᾌᾍᾎᾏ"
    \o "ᾐᾑᾒᾓᾔᾕᾖᾗᾘᾙᾚᾛᾜᾝᾞᾟᾠᾡᾢᾣᾤᾥᾦᾧᾨᾩᾪᾫᾬᾭᾮᾯᾶᾷῆῇῒΐῖῗῢΰῤῦῧῶῷ"

\* str.lower() of one character, a capital sigma apart: the characters it changes into one other
\* character, and what each becomes (same position).
LOWER_DE ==
       "ABCDEFGHIJKLMNOPQRSTUVWXYZÀÁÂÃÄÅÆÇÈÉÊËÌÍÎÏÐÑÒÓÔÕ"
    \o "ÖØÙÚÛÜÝÞƂƄƇƋƎƑƘƠƢƤƦƧƩƬƮƯƱƲƳƵƷƸƼǄǅǇǈǊǋǍǏǑǓǕǗǙǛǞǠǢ"
    \o "ǤǦǨǪǬǮǱǲǴǶǷǸǺǼǾΆΈΉΊΌΎΏΑΒΓΔΕΖΗΘΙΚΛΜΝΞΟΠΡΣΤΥΦΧΨΩΪΫ"
    \o "ϏϘϚϜϞϠϢϤϦϨϪϬϮϴϷϹϺҀҊҌҎҐҒҔҖҘҚҜҞҠҢҤҦҨҪҬҮҰҲҴҶҸҺҼҾӀӁӃ"
    \o "ӅӇӉӋӍӐӒӔӖӘӚӜӞӠӢӤӦӨӪӬӮӰӲӴӶӸӺӼӾᎰᎱᎲᎳᎴᎵᎶᎷᎸᎹᎺᎻᎼᎽᎾᎿᏀᏁᏂ"
    \o "ᏃᏄᏅᏆᏇᏈᏉᏊᏋᏌᏍᏎᏏᏐᏑᏒᏓᏔᏕᏖᏗᏘᏙᏚᏛᏜᏝᏞᏟᏠᏡᏢᏣᏤᏥᏦᏧᏨᏩᏪᏫᏬᏭᏮᏯᏰᏱᏲ"
    \o "ᏳᏴᏵᲐᲑᲒᲓᲔᲕᲖᲗᲘᲙᲚᲛᲜᲝᲞᲟᲠᲡᲢᲣᲤᲥᲦᲧᲨᲩᲪᲫᲬᲭᲮᲯᲰᲱᲲᲳᲴᲵᲶᲷᲸᲹᲺᲽᲾ"
    \o "ᲿẀẂẄẆẈẊẌẎẐẒẔẞẠẢẤẦẨẪẬẮẰẲẴẶẸẺẼẾỀỂỄỆỈỊỌỎỐỒỔỖỘỚỜỞỠỢỤ"
    \o "ỦỨỪỬỮỰỲỴỶỸỺỼỾᾈᾉᾊᾋᾌᾍᾎᾏᾘᾙᾚᾛᾜᾝᾞᾟᾨᾩᾪᾫᾬᾭᾮᾯᾸᾹᾼῌῘῙῨῩῬῼↃ"
    \o "ⒶⒷⒸⒹⒺⒻⒼⒽⒾⒿⓀⓁⓂⓃⓄⓅⓆⓇⓈⓉⓊⓋⓌⓍⓎⓏⲀⲂⲄⲆⲈⲊⲌⲎⲐⲒⲔⲖⲘⲚⲜⲞⲠⲢⲤⲦⲨⲪ"
    \o "ⲬⲮⲰⲲⲴⲶⲸⲺⲼⲾⳀⳂⳄⳆⳈⳊⳌⳎⳐⳒⳔⳖⳘⳚⳜⳞⳠⳢⳫⳭⳲꚀꚂꚄꚆꚈꚊꚌꚎꚐꚒꚔꚖꚘꚚꞀꞂꞄ"
    \o "ꞆꞋꞐꞒꞖꞘꞚꞜꞞꞠꞢꞤꞦꞨꞰꞱꞲꞴꞶꞸꞺꞼꞾꟀꟂꟄꟅꟆꟇꟉꟐꟖꟘꟵ"

LOWER_PARA ==
       "abcdefghijklmnopqrstuvwxyzàáâãäåæçèéêëìíîïðñòóôõ"
    \o "öøùúûüýþƃƅƈƌǝƒƙơƣƥʀƨʃƭʈưʊʋƴƶʒƹƽǆǆǉǉǌǌǎǐǒǔǖǘǚǜǟǡǣ"
    \o "ǥǧǩǫǭǯǳǳǵƕƿǹǻǽǿάέήίόύώαβγδεζηθικλμνξοπρστυφχψωϊϋ"
    \o "ϗϙϛϝϟϡϣϥϧϩϫϭϯθϸϲϻҁҋҍҏґғҕҗҙқҝҟҡңҥҧҩҫҭүұҳҵҷҹһҽҿӏӂӄ"
    \o "ӆӈӊӌӎӑӓӕӗәӛӝӟӡӣӥӧөӫӭӯӱӳӵӷӹӻӽӿꮀꮁꮂꮃꮄꮅꮆꮇꮈꮉꮊꮋꮌꮍꮎꮏꮐꮑꮒ"
    \o "ꮓꮔꮕꮖꮗꮘꮙꮚꮛꮜꮝꮞꮟꮠꮡꮢꮣꮤꮥꮦꮧꮨꮩꮪꮫꮬꮭꮮꮯꮰꮱꮲꮳꮴꮵꮶꮷꮸꮹꮺꮻꮼꮽꮾꮿᏸᏹᏺ"
    \o "ᏻᏼᏽაბგდევზთიკლმნოპჟრსტუფქღყშჩცძწჭხჯჰჱჲჳჴჵჶჷჸჹჺჽჾ"
    \o "ჿẁẃẅẇẉẋẍẏẑẓẕßạảấầẩẫậắằẳẵặẹẻẽếềểễệỉịọỏốồổỗộớờởỡợụ"
    \o "ủứừửữựỳỵỷỹỻỽỿᾀᾁᾂᾃᾄᾅᾆᾇᾐᾑᾒᾓᾔᾕᾖᾗᾠᾡᾢᾣᾤᾥᾦᾧᾰᾱᾳῃῐῑῠῡῥῳↄ"
    \o "ⓐⓑⓒⓓⓔⓕⓖⓗⓘⓙⓚⓛⓜⓝⓞⓟⓠⓡⓢⓣⓤⓥⓦⓧⓨⓩⲁⲃⲅⲇⲉⲋⲍⲏⲑⲓⲕⲗⲙⲛⲝⲟⲡⲣⲥⲧⲩⲫ"
    \o "ⲭⲯⲱⲳⲵⲷⲹⲻⲽⲿⳁⳃⳅⳇⳉⳋⳍⳏⳑⳓⳕⳗⳙⳛⳝⳟⳡⳣⳬⳮⳳꚁꚃꚅꚇꚉꚋꚍꚏꚑꚓꚕꚗꚙꚛꞁꞃꞅ"
    \o "ꞇꞌꞑꞓꞗꞙꞛꞝꞟꞡꞣꞥꞧꞩʞʇʝꞵꞷꞹꞻꞽꞿꟁꟃꞔʂᶎꟈꟊꟑꟗꟙꟶ"


\* str.lower() of one character, a capital sigma apart: the characters whose result holds a character
\* that a TLA+ string cannot hold.
LOWER_FORA ==
       "ƁƆƉƊƏƐƓƔƖƗƜƝƟϽϾϿႠႡႢႣႤႥႦႧႨႩႪႫႬႭႮႯႰႱႲႳႴႵႶႷႸႹႺႻႼႽႾႿ"
    \o "ჀჁჂჃჄჅჇჍᎠᎡᎢᎣᎤᎥᎦᎧᎨᎩᎪᎫᎬᎭᎮᎯᾺΆῈΈῊΉῚΊῪΎῸΌῺΏꞍꞪꞫꞬꞭꞮꞳ"

\* str.title() of one character: the characters it changes into one other
\* character, and what each becomes (same position).
TITLE_DE ==
       "abcdefghijklmnopqrstuvwxyzµàáâãäåæçèéêëìíîïðñòóô"
    \o "õöøùúûüýþƃƅƈƌƒƕƙơƣƥƨƭưƴƶƹƽƿǄǆǇǉǊǌǎǐǒǔǖǘǚǜǝǟǡǣǥǧǩ"
    \o "ǫǭǯǱǳǵǹǻǽǿʀʂʃʇʈʊʋʒʝʞάέήίαβγδεζηθικλμνξοπρςστυφχψ"
    \o "ωϊϋόύώϐϑϕϖϗϙϛϝϟϡϣϥϧϩϫϭϯϰϱϲϵϸϻҁҋҍҏґғҕҗҙқҝҟҡңҥҧҩҫҭ"
    \o "үұҳҵҷҹһҽҿӂӄӆӈӊӌӎӏӑӓӕӗәӛӝӟӡӣӥӧөӫӭӯӱӳӵӷӹӻӽӿᏸᏹᏺᏻᏼᏽᶎ"
    \o "ẁẃẅẇẉẋẍẏẑẓẕạảấầẩẫậắằẳẵặẹẻẽếềểễệỉịọỏốồổỗộớờởỡợụủứ"
    \o "ừửữựỳỵỷỹỻỽỿᾀᾁᾂᾃᾄᾅᾆᾇᾐᾑᾒᾓᾔᾕᾖᾗᾠᾡᾢᾣᾤᾥᾦᾧᾰᾱᾳιῃῐῑῠῡῥῳↄⓐ"
    \o "ⓑⓒⓓⓔⓕⓖⓗⓘⓙⓚⓛⓜⓝⓞⓟⓠⓡⓢⓣⓤⓥⓦⓧⓨⓩⲁⲃⲅⲇⲉⲋⲍⲏⲑⲓⲕⲗⲙⲛⲝⲟⲡⲣⲥⲧⲩⲫⲭ"
    \o "ⲯⲱⲳⲵⲷⲹⲻⲽⲿⳁⳃⳅⳇⳉⳋⳍⳏⳑⳓⳕⳗⳙⳛⳝⳟⳡⳣⳬⳮⳳꚁꚃꚅꚇꚉꚋꚍꚏꚑꚓꚕꚗꚙꚛꞁꞃꞅꞇ"
    \o "ꞌꞑꞓꞔꞗꞙꞛꞝꞟꞡꞣꞥꞧꞩꞵꞷꞹꞻꞽꞿꟁꟃꟈꟊꟑꟗꟙꟶꮀꮁꮂꮃꮄꮅꮆꮇꮈꮉꮊꮋꮌꮍꮎꮏꮐꮑꮒꮓ"
    \o "ꮔꮕꮖꮗꮘꮙꮚꮛꮜꮝꮞꮟꮠꮡꮢꮣꮤꮥꮦꮧꮨꮩꮪꮫꮬꮭꮮꮯꮰꮱꮲꮳꮴꮵꮶꮷꮸꮹꮺꮻꮼꮽꮾꮿ"

TITLE_PARA ==
       "ABCDEFGHIJKLMNOPQRSTUVWXYZΜÀÁÂÃÄÅÆÇÈÉÊËÌÍÎÏÐÑÒÓÔ"
    \o "ÕÖØÙÚÛÜÝÞƂƄƇƋƑǶƘƠƢƤƧƬƯƳƵƸƼǷǅǅǈǈǋǋǍǏǑǓǕǗǙǛƎǞǠǢǤǦǨ"
    \o "ǪǬǮǲǲǴǸǺǼǾƦꟅƩꞱƮƱƲƷꞲꞰΆΈΉΊΑΒΓΔΕΖΗΘΙΚΛΜΝΞΟΠΡΣΣΤΥΦΧΨ"
    \o "ΩΪΫΌΎΏΒΘΦΠϏϘϚϜϞϠϢϤϦϨϪϬϮΚΡϹΕϷϺҀҊҌҎҐҒҔҖҘҚҜҞҠҢҤҦҨҪҬ"
    \o "ҮҰҲҴҶҸҺҼҾӁӃӅӇӉӋӍӀӐӒӔӖӘӚӜӞӠӢӤӦӨӪӬӮӰӲӴӶӸӺӼӾᏰᏱᏲᏳᏴᏵꟆ"
    \o "ẀẂẄẆẈẊẌẎẐẒẔẠẢẤẦẨẪẬẮẰẲẴẶẸẺẼẾỀỂỄỆỈỊỌỎỐỒỔỖỘỚỜỞỠỢỤỦỨ"
    \o "ỪỬỮỰỲỴỶỸỺỼỾᾈᾉᾊᾋᾌᾍᾎᾏᾘᾙᾚᾛᾜᾝᾞᾟᾨᾩᾪᾫᾬᾭᾮᾯᾸᾹᾼΙῌῘῙῨῩῬῼↃⒶ"
    \o "ⒷⒸⒹⒺⒻⒼⒽⒾⒿⓀⓁⓂⓃⓄⓅⓆⓇⓈⓉⓊⓋⓌⓍⓎⓏⲀⲂⲄⲆⲈⲊⲌⲎⲐⲒⲔⲖⲘⲚⲜⲞⲠⲢⲤⲦⲨⲪⲬ"
    \o "ⲮⲰⲲⲴⲶⲸⲺⲼⲾⳀⳂⳄⳆⳈⳊⳌⳎⳐⳒⳔⳖⳘⳚⳜⳞⳠⳢⳫⳭⳲꚀꚂꚄꚆꚈꚊꚌꚎꚐꚒꚔꚖꚘꚚꞀꞂꞄꞆ"
    \o "ꞋꞐꞒꟄꞖꞘꞚꞜꞞꞠꞢꞤꞦꞨꞴꞶꞸꞺꞼꞾꟀꟂꟇꟉꟐꟖꟘꟵᎰᎱᎲᎳᎴᎵᎶᎷᎸᎹᎺᎻᎼᎽᎾᎿᏀᏁᏂᏃ"
    \o "ᏄᏅᏆᏇᏈᏉᏊᏋᏌᏍᏎᏏᏐᏑᏒᏓᏔᏕᏖᏗᏘᏙᏚᏛᏜᏝᏞᏟᏠᏡᏢᏣᏤᏥᏦᏧᏨᏩᏪᏫᏬᏭᏮᏯ"

\* str.title() of one character: the characters it changes into several characters.
TITLE_ESPECIAL ==
       "ß" :> "Ss"
    @@ "ẚ" :> "Aʾ"

\* str.title() of one character: the characters whose result holds a character
\* that a TLA+ string cannot hold.
TITLE_FORA ==
       "ÿƀƚƞǰʉʌΐΰϳրցւփքօֆևᲀᲁᲂᲃᲄᲅᲆᲇᲈẖẗẘẙẛᾲᾴᾶᾷῂῄῆῇῒΐῖῗῢΰῤῦ"
    \o "ῧῲῴῶῷ"

\* The i-th character of s, as a one-character string.
Ch(s, i) == SubSeq(s, i, i)

\* The characters of a table.
Conj(t) == {Ch(t, i) : i \in 1..Len(t)}

\* The character at the position of c in a pair of tables.
Mapeia(c, de, para) == Ch(para, CHOOSE i \in 1..Len(de) : Ch(de, i) = c)

Whitespace == Conj(WHITESPACE)

RECURSIVE lstrip(_)
lstrip(s) ==
    IF Len(s) > 0 /\ Ch(s, 1) \in Whitespace THEN lstrip(Tail(s)) ELSE s

RECURSIVE rstrip(_)
rstrip(s) ==
    IF Len(s) > 0 /\ Ch(s, Len(s)) \in Whitespace
    THEN rstrip(SubSeq(s, 1, Len(s) - 1))
    ELSE s

\* str.strip()
strip(s) == rstrip(lstrip(s))

RECURSIVE Zeros(_)
Zeros(n) == IF n <= 0 THEN "" ELSE "0" \o Zeros(n - 1)

\* str.zfill(width): never truncates; a leading sign stays in front of the zeros.
zfill(s, width) ==
    IF Len(s) >= width THEN s
    ELSE IF Len(s) > 0 /\ Ch(s, 1) \in {"+", "-"}
         THEN Ch(s, 1) \o Zeros(width - Len(s)) \o Tail(s)
         ELSE Zeros(width - Len(s)) \o s

UpperDe == Conj(UPPER_DE)
LowerDe == Conj(LOWER_DE)
TitleDe == Conj(TITLE_DE)
UpperFora == Conj(UPPER_FORA)
LowerFora == Conj(LOWER_FORA)
TitleFora == Conj(TITLE_FORA)
Cased == Conj(CASED)
Ignorable == Conj(IGNORABLE)

\* The result of a conversion of c that no TLA+ string can hold: there is none.
SemValor(c) == CHOOSE r \in {} : r = c

\* c.upper() of one character
ToUpperCh(c) ==
    IF c \in DOMAIN UPPER_ESPECIAL THEN UPPER_ESPECIAL[c]
    ELSE IF c \in UpperDe THEN Mapeia(c, UPPER_DE, UPPER_PARA)
    ELSE IF c \in UpperFora THEN SemValor(c)
    ELSE c

\* c.lower() of one character taken alone
ToLowerCh(c) ==
    IF c \in LowerDe THEN Mapeia(c, LOWER_DE, LOWER_PARA)
    ELSE IF c \in LowerFora THEN SemValor(c)
    ELSE c

\* c.title() of one character
ToTitleCh(c) ==
    IF c \in DOMAIN TITLE_ESPECIAL THEN TITLE_ESPECIAL[c]
    ELSE IF c \in TitleDe THEN Mapeia(c, TITLE_DE, TITLE_PARA)
    ELSE IF c \in TitleFora THEN SemValor(c)
    ELSE c

IsCased(c) == c \in Cased

\* str.upper()
RECURSIVE upper(_)
upper(s) == IF Len(s) = 0 THEN "" ELSE ToUpperCh(Ch(s, 1)) \o upper(Tail(s))

\* Whether the capital sigma at position i of s is in final position: the
\* nearest character before it that is not case-ignorable is cased, and the
\* nearest one after it, if any, is not.
SigmaFinal(s, i) ==
    LET antes == {j \in 1..(i - 1) : Ch(s, j) \notin Ignorable}
        depois == {j \in (i + 1)..Len(s) : Ch(s, j) \notin Ignorable}
    IN /\ antes # {}
       /\ IsCased(Ch(s, CHOOSE j \in antes : \A k \in antes : k <= j))
       /\ \/ depois = {}
          \/ ~IsCased(Ch(s, CHOOSE j \in depois : \A k \in depois : j <= k))

\* The lower-casing of the character at position i of s
LowerAt(s, i) ==
    IF Ch(s, i) = "Σ" THEN (IF SigmaFinal(s, i) THEN "ς" ELSE "σ")
    ELSE ToLowerCh(Ch(s, i))

\* str.title(): a character is title-cased when the character before it is
\* not cased (or there is none), lower-cased when it is.
RECURSIVE TitleFrom(_, _)
TitleFrom(s, i) ==
    IF i > Len(s) THEN ""
    ELSE (IF i > 1 /\ IsCased(Ch(s, i - 1)) THEN LowerAt(s, i) ELSE ToTitleCh(Ch(s, i)))
            \o TitleFrom(s, i + 1)

title(s) == TitleFrom(s, 1)

Digits == Conj(DIGITS)

\* "".join(c for c in s if c.isdigit())
RECURSIVE SoDigitos(_)
SoDigitos(s) ==
    IF Len(s) = 0 THEN ""
    ELSE (IF Ch(s, 1) \in Digits THEN Ch(s, 1) ELSE "") \o SoDigitos(Tail(s))

(***************************************************************************)
(* Configuration                                                           *)
(***************************************************************************)

UFS_TODAS == << "AC", "AL", "AM", "AP", "BA", "CE", "DF", "ES", "GO",
                "MA", "MG", "MS", "MT", "PA", "PB", "PE", "PI", "PR",
                "RJ", "RN", "RO", "RR", "RS", "SC", "SE", "SP", "TO" >>

\* The run is modelled over the first NumUFs entries of the list.
NumUFs == 3

UFS == SubSeq(UFS_TODAS, 1, IF NumUFs < Len(UFS_TODAS) THEN NumUFs ELSE Len(UFS_TODAS))

GESTAO_SUS == {"M", "E", "D"}

TP_UNIDADE_MAP ==
       "01" :> <<"primaria",   "Posto de Saúde">>
    @@ "02" :> <<"primaria",   "Centro de Saúde / UBS">>
    @@ "04" :> <<"secundaria", "Policlínica">>
    @@ "05" :> <<"terciaria",  "Hospital Geral">>
    @@ "06" :> <<"terciaria",  "Hospital Especializado">>
    @@ "07" :> <<"terciaria",  "Hospital Dia">>
    @@ "08" :> <<"secundaria", "Pronto-Socorro Geral">>
    @@ "15" :> <<"secundaria", "Unidade Mista">>
    @@ "20" :> <<"secundaria", "Pronto-Atendimento">>
    @@ "21" :> <<"secundaria", "UPA 24h">>
    @@ "22" :> <<"primaria",   "Consultório Isolado">>
    @@ "32" :> <<"primaria",   "Clínica Especializada">>
    @@ "36" :> <<"secundaria", "Clínica/Centro de Especialidade">>
    @@ "39" :> <<"secundaria", "SADT / Diagnose e Terapia">>
    @@ "43" :> <<"primaria",   "Farmácia">>
    @@ "50" :> <<"primaria",   "Vigilância em Saúde">>
    @@ "61" :> <<"terciaria",  "Centro de Parto Normal">>
    @@ "62" :> <<"terciaria",  "Hospital Dia Isolado">>
    @@ "64" :> <<"secundaria", "Central de Regulação">>
    @@ "65" :> <<"secundaria", "Pronto-Atendimento Especializado">>
    @@ "67" :> <<"primaria",   "Laboratório de Saúde Pública">>
    @@ "69" :> <<"secundaria", "Hemocentro">>
    @@ "70" :> <<"primaria",   "CAPS">>
    @@ "71" :> <<"primaria",   "CASF">>
    @@ "72" :> <<"primaria",   "Saúde Indígena">>
    @@ "73" :> <<"secundaria", "Pronto-Socorro Geral">>
    @@ "74" :> <<"secundaria", "Pronto-Socorro Especializado">>
    @@ "75" :> <<"terciaria",  "Casa de Saúde">>
    @@ "76" :> <<"secundaria", "CEREST">>
    @@ "77" :> <<"primaria",   "Atenção Domiciliar">>
    @@ "78" :> <<"primaria",   "Comunidade Terapêutica">>
    @@ "79" :> <<"primaria",   "Oficina Ortopédica">>
    @@ "80" :> <<"secundaria", "Laboratório de Saúde">>
    @@ "81" :> <<"secundaria", "Centro de Saúde Escola">>
    @@ "82" :> <<"secundaria", "Unidade Móvel de Urgência">>
    @@ "83" :> <<"primaria",   "Academia da Saúde">>
    @@ "84" :> <<"secundaria", "SAMU / Central de Regulação de Urgências">>
    @@ "85" :> <<"primaria",   "SAD - Serviço de Atenção Domiciliar">>
    @@ "86" :> <<"primaria",   "Unidade de Atenção Psicossocial">>

\* TP_UNIDADE_MAP.get(tp, ("primaria", "Unidade de Saúde"))
TpUnidadeDefault == <<"primaria", "Unidade de Saúde">>

\* Variant: a miss hands back the raw code instead of the default pair.
TpUnidadeGet_Cru(tp) ==
    IF tp \in DOMAIN TP_UNIDADE_MAP THEN TP_UNIDADE_MAP[tp] ELSE <<tp, tp>>

TpUnidadeGet(tp) ==
    IF tp \in DOMAIN TP_UNIDADE_MAP THEN TP_UNIDADE_MAP[tp] ELSE TpUnidadeDefault

\* {"M": "Municipal", "E": "Estadual", "D": "Municipal"}.get(g, "Municipal")
GESTAO_LABEL == "M" :> "Municipal" @@ "E" :> "Estadual" @@ "D" :> "Municipal"

GestaoGet(g) ==
    IF g \in DOMAIN GESTAO_LABEL THEN GESTAO_LABEL[g] ELSE "Municipal"

(***************************************************************************)
(* campo: the first non-null field among the candidates                    *)
(***************************************************************************)

NULL == <<>>

\* pd.notna(v)
notna(v) == v # NULL

\* str(v) of a non-null cell
StrOf(v) == v[1]

CampoNulos == {"", "nan", "None"}

\* The test of one candidate: present in row.index, not null, and not a
\* null sentinel once stripped.
CampoAceita(row, c) ==
    /\ c \in DOMAIN row
    /\ notna(row[c])
    /\ strip(StrOf(row[c])) \notin CampoNulos

\* Variant: the sentinel test is made on the raw value, not the stripped one.
RECURSIVE campo_SemStrip(_, _, _)
campo_SemStrip(row, candidatos, default) ==
    IF candidatos = <<>> THEN default
    ELSE IF /\ Head(candidatos) \in DOMAIN row
            /\ notna(row[Head(candidatos)])
            /\ StrOf(row[Head(candidatos)]) \notin CampoNulos
         THEN strip(StrOf(row[Head(candidatos)]))
         ELSE campo_SemStrip(row, Tail(candidatos), default)

RECURSIVE campo(_, _, _)
campo(row, candidatos, default) ==
    IF candidatos = <<>> THEN default
    ELSE IF CampoAceita(row, Head(candidatos))
         THEN strip(StrOf(row[Head(candidatos)]))
         ELSE campo(row, Tail(candidatos), default)

(***************************************************************************)
(* processar_df: filter and transform one CNES DataFrame                   *)
(***************************************************************************)

\* df.columns = [c.upper() for c in df.columns]
\* (column names are distinct up to case: RawRecord field names are
\*  case-insensitive)
UpperColumns(df) ==
    LET cols == {upper(c) : c \in df.columns}
        ren(r) == [C \in cols |-> r[CHOOSE c \in df.columns : upper(c) = C]]
    IN [columns |-> cols,
        rows    |-> [i \in 1..Len(df.rows) |-> ren(df.rows[i])]]

\* next((c for c in aliases if c in df.columns), None): <<>> for None
RECURSIVE PrimeiraColuna(_, _)
PrimeiraColuna(aliases, columns) ==
    IF aliases = <<>> THEN <<>>
    ELSE IF Head(aliases) \in columns THEN <<Head(aliases)>>
         ELSE PrimeiraColuna(Tail(aliases), columns)

ALIASES_GESTAO == <<"TP_GESTAO", "TP_GESTAO_", "TPGESTAO">>
ALIASES_DESATIVACAO == <<"DT_DESATIVACAO", "DT_DESATIVACAO_", "DTDESATIVACAO">>
ALIASES_CNES == <<"CO_UNIDADE", "CNES", "CO_CNES", "COUNIDADE">>
ALIASES_FANTASIA == <<"NO_FANTASIA", "NOFANTASIA">>
ALIASES_RAZAO == <<"NO_RAZAO_SOCIAL", "NO_RAZAO_SOCIAL_", "NORAZAOSOCIAL">>
ALIASES_IBGE == <<"CO_MUNICIPIO_GESTOR", "CO_MUNICIPIO", "CO_MUN_GESTOR", "COMUNICIPIOGESTOR">>
ALIASES_TP_UNIDADE == <<"TP_UNIDADE", "TP_UNIDADE_", "TPUNIDADE">>
ALIASES_LOGRADOURO == <<"NO_LOGRADOURO", "DS_LOGRADOURO", "NOLOGRADOURO">>
ALIASES_NUMERO == <<"NU_ENDERECO", "DS_NUMERO", "NUENDERECO">>
ALIASES_BAIRRO == <<"DS_BAIRRO", "NO_BAIRRO", "DSBAIRRO">>
ALIASES_CEP == <<"DS_CEP", "NU_CEP", "CO_CEP", "DSCEP">>
ALIASES_TEL == <<"NU_TELEFONE", "DS_TELEFONE", "NUTELEFONE">>

col_gestao(df) == PrimeiraColuna(ALIASES_GESTAO, df.columns)

\* df[col].isin(GESTAO_SUS), for one row (a null is in no set)
MascaraSUS(row, col) == notna(row[col]) /\ StrOf(row[col]) \in GESTAO_SUS

\* Variant: a table without a governance column loses every row.
FiltroSUS_Fechado(df) ==
    LET cg == col_gestao(df)
    IN IF cg # <<>>
       THEN [df EXCEPT !.rows = SelectSeq(df.rows, LAMBDA r : MascaraSUS(r, cg[1]))]
       ELSE [df EXCEPT !.rows = <<>>]

\* Filtro 1: vinculo SUS
FiltroSUS(df) ==
    LET cg == col_gestao(df)
    IN IF cg # <<>>
       THEN [df EXCEPT !.rows = SelectSeq(df.rows, LAMBDA r : MascaraSUS(r, cg[1]))]
       ELSE df

SEM_DESATIVACAO == {"", "0", "00000000"}

\* df[col].isna() | df[col].isin(["", "0", "00000000"]), for one row
MascaraAtiva(row, col) ==
    \/ ~notna(row[col])
    \/ notna(row[col]) /\ StrOf(row[col]) \in SEM_DESATIVACAO

\* The column the for/break of Filtro 2 stops at
col_desativacao(df) == PrimeiraColuna(ALIASES_DESATIVACAO, df.columns)

\* Variant: no break, every deactivation column present is applied.
RECURSIVE FiltraPorTodas(_, _)
FiltraPorTodas(df, aliases) ==
    IF aliases = <<>> THEN df
    ELSE IF Head(aliases) \in df.columns
         THEN FiltraPorTodas(
                [df EXCEPT !.rows =
                    SelectSeq(df.rows, LAMBDA r : MascaraAtiva(r, Head(aliases)))],
                Tail(aliases))
         ELSE FiltraPorTodas(df, Tail(aliases))

FiltroAtivas_SemBreak(df) == FiltraPorTodas(df, ALIASES_DESATIVACAO)

\* Filtro 2: unidades ativas
FiltroAtivas(df) ==
    LET cd == col_desativacao(df)
    IN IF cd # <<>>
       THEN [df EXCEPT !.rows = SelectSeq(df.rows, LAMBDA r : MascaraAtiva(r, cd[1]))]
       ELSE df

\* cnes = campo(...); if not cnes: continue; cnes = cnes.zfill(7)
CnesDe(row) == zfill(campo(row, ALIASES_CNES, ""), 7)

\* nome = campo(fantasia); if not nome: nome = campo(razao social)
NomeBruto(row) ==
    LET nome == campo(row, ALIASES_FANTASIA, "")
    IN IF nome = "" THEN campo(row, ALIASES_RAZAO, "") ELSE nome

\* ibge6 = campo(...); ibge6 = ibge6.zfill(6) if ibge6 else ""
Ibge6De(row) ==
    LET ibge6 == campo(row, ALIASES_IBGE, "")
    IN IF ibge6 # "" THEN zfill(ibge6, 6) ELSE ""

\* tp = campo(..., "02"); tp = tp.zfill(2); nivel, perfil = TP_UNIDADE_MAP.get(...)
ClassificacaoDe(row) == TpUnidadeGet(zfill(campo(row, ALIASES_TP_UNIDADE, "02"), 2))

\* g = campo(..., "M"); gestao = {...}.get(g, "Municipal")
GestaoDe(row) == GestaoGet(campo(row, ALIASES_GESTAO, "M"))

\* endereco = logradouro; if numero: "{logradouro}, {numero}" if logradouro else numero
EnderecoDe(row) ==
    LET logradouro == campo(row, ALIASES_LOGRADOURO, "")
        numero     == campo(row, ALIASES_NUMERO, "")
    IN IF numero # ""
       THEN (IF logradouro # "" THEN logradouro \o ", " \o numero ELSE numero)
       ELSE logradouro

\* The dict appended to registros
RegistroDe(row) ==
    [cnes       |-> CnesDe(row),
     nome       |-> title(NomeBruto(row)),
     nivel      |-> ClassificacaoDe(row)[1],
     perfil     |-> ClassificacaoDe(row)[2],
     gestao     |-> GestaoDe(row),
     ibge6      |-> Ibge6De(row),
     logradouro |-> EnderecoDe(row),
     bairro     |-> campo(row, ALIASES_BAIRRO, ""),
     cep        |-> SoDigitos(campo(row, ALIASES_CEP, "")),
     tel        |-> SoDigitos(campo(row, ALIASES_TEL, ""))]

\* Variant: the name gate is missing.
Linha_SemNome(row) ==
    IF campo(row, ALIASES_CNES, "") = "" THEN <<>> ELSE <<RegistroDe(row)>>

\* One pass of the body of "for _, row in df.iterrows()": <<>> when the row
\* hits a continue, <<registro>> when it reaches registros.append.
Linha(row) ==
    IF campo(row, ALIASES_CNES, "") = "" THEN <<>>
    ELSE IF NomeBruto(row) = "" THEN <<>>
    ELSE <<RegistroDe(row)>>

RECURSIVE Registros(_)
Registros(rows) ==
    IF rows = <<>> THEN <<>> ELSE Linha(Head(rows)) \o Registros(Tail(rows))

processar_df(df, uf) == Registros(FiltroAtivas(FiltroSUS(UpperColumns(df))).rows)

(***************************************************************************)
(* Input tables                                                            *)
(***************************************************************************)

\* Largest number of rows of an enumerated table.
MaxRows == 2

\* A schema is a sequence of <<column name, set of cells>>; its rows are
\* every choice of one cell per column.
RECURSIVE LinhasDe(_)
LinhasDe(sch) ==
    IF sch = <<>> THEN {<<>>}
    ELSE {(Head(sch)[1] :> v) @@ r : v \in Head(sch)[2], r \in LinhasDe(Tail(sch))}

ColunasDe(sch) == {sch[i][1] : i \in 1..Len(sch)}

\* Every DataFrame of a schema with at most MaxRows rows.
TabelasDe(sch) ==
    {[columns |-> ColunasDe(sch), rows |-> rs] :
        rs \in UNION {[1..n -> LinhasDe(sch)] : n \in 0..MaxRows}}

\* Facility code under the first alias: lengths 1, 7, 8, padded with blanks,
\* null, the null sentinels and a lone no-break space (U+00A0).
SchCnes ==
    << <<"CO_UNIDADE", {NULL, <<"">>, <<"1">>, <<"1234567">>, <<"12345678">>,
                        <<" 42 ">>, <<"nan">>, <<" ">>}>>,
       <<"NO_FANTASIA", {<<"UBS CENTRO">>}>> >>

\* Facility code and name under later aliases, lower-case column names.
SchAlias ==
    << <<"cnes", {NULL, <<"7">>}>>,
       <<"CO_CNES", {<<"None">>, <<"123456789">>}>>,
       <<"no_razao_social", {<<"santa casa d'oeste">>, <<" ">>}>> >>

\* No column under any facility-code alias.
SchSemCnes ==
    << <<"NO_FANTASIA", {<<"POSTO A">>, NULL}>>,
       <<"TP_UNIDADE", {<<"05">>}>> >>

\* Governance code under the first alias; the last value ends with a
\* no-break space (U+00A0).
SchGestao ==
    << <<"CNES", {<<"2269311">>, NULL}>>,
       <<"NO_FANTASIA", {<<"HOSPITAL SÃO LUCAS">>}>>,
       <<"TP_GESTAO", {<<"M">>, <<"E">>, <<"D">>, <<"S">>, NULL, <<" M">>, <<"S ">>}>> >>

\* Two governance columns under later aliases, with conflicting values.
SchGestaoDupla ==
    << <<"CNES", {<<"2269311">>}>>,
       <<"NOFANTASIA", {<<"upa 24h norte">>}>>,
       <<"TP_GESTAO_", {<<"S">>, <<"E">>, NULL}>>,
       <<"tpgestao", {<<"M">>, <<"S">>}>> >>

\* Deactivation date under the first alias.
SchDesativacao ==
    << <<"CNES", {<<"2269311">>}>>,
       <<"NO_FANTASIA", {<<"UBS CENTRO">>}>>,
       <<"DT_DESATIVACAO", {NULL, <<"">>, <<"0">>, <<"00000000">>,
                            <<"20200101">>, <<" ">>}>> >>

\* Two deactivation columns under later aliases, with conflicting values.
SchDesativacaoDupla ==
    << <<"CNES", {<<"2269311">>}>>,
       <<"NO_FANTASIA", {<<"UBS CENTRO">>}>>,
       <<"DT_DESATIVACAO_", {NULL, <<"0">>, <<"20191231">>}>>,
       <<"DTDESATIVACAO", {NULL, <<"">>, <<"20200101">>}>> >>

\* Facility type and municipality codes.
SchClassificacao ==
    << <<"CO_UNIDADE", {<<"33">>}>>,
       <<"NO_RAZAO_SOCIAL", {<<"CLINICA X">>}>>,
       <<"TP_UNIDADE", {<<"5">>, <<"99">>, <<"005">>, NULL}>>,
       <<"CO_MUNICIPIO", {<<"">>, <<"3304557">>, <<"330455">>, <<"33">>}>> >>

\* Address, postal code and phone; a name with letters outside a-z and a
\* postal code with a superscript digit.
SchEndereco ==
    << <<"CNES", {<<"7654321">>}>>,
       <<"NO_FANTASIA", {<<"CAPS SUL">>, <<"POSTO SIMÕES ÀS MARGENS">>}>>,
       <<"NO_LOGRADOURO", {<<"Av. Brasil">>, <<"">>}>>,
       <<"NU_ENDERECO", {<<"100">>, <<"">>}>>,
       <<"DS_BAIRRO", {<<"Centro">>}>>,
       <<"DS_CEP", {<<"01310-100">>, <<"0131²">>}>>,
       <<"NU_TELEFONE", {<<"(11) 4002-8922">>}>> >>

\* Governance and deactivation together, with a row gate.
SchFiltros ==
    << <<"CNES", {<<"15">>, NULL}>>,
       <<"NO_FANTASIA", {<<"POSTO B">>}>>,
       <<"TP_GESTAO", {<<"M">>, <<"S">>}>>,
       <<"DT_DESATIVACAO", {<<"">>, <<"20200101">>}>> >>

Esquemas ==
    {SchCnes, SchAlias, SchSemCnes, SchGestao, SchGestaoDupla, SchDesativacao,
     SchDesativacaoDupla, SchClassificacao, SchEndereco, SchFiltros}

\* The end-to-end table: 100 rows, of which rows 1..10 lack a facility code,
\* rows 11..15 have governance "S", and the other 85 are valid.
Tabela100 ==
    [columns |-> {"CNES", "NO_FANTASIA", "TP_GESTAO"},
     rows    |-> [i \in 1..100 |->
                    "CNES" :> (IF i <= 10 THEN NULL ELSE <<"2269311">>)
                 @@ "NO_FANTASIA" :> <<"UBS CENTRO">>
                 @@ "TP_GESTAO" :> (IF i \in 11..15 THEN <<"S">> ELSE <<"M">>)]]

\* The governance example: values "M", "S", "E" in this order.
TabelaMSE ==
    [columns |-> {"CNES", "NO_FANTASIA", "TP_GESTAO"},
     rows    |-> [i \in 1..3 |->
                    "CNES" :> <<"2269311">>
                 @@ "NO_FANTASIA" :> <<"UBS CENTRO">>
                 @@ "TP_GESTAO" :> <<Ch("MSE", i)>>]]

Tabelas == UNION {TabelasDe(sch) : sch \in Esquemas} \cup {Tabela100, TabelaMSE}

(***************************************************************************)
(* One call of processar_df, step by step                                  *)
(***************************************************************************)

MainIdle ==
    /\ pc = "idle" /\ idx = 0 /\ resumo = <<>> /\ falhas = <<>>
    /\ disco = <<>> /\ disco0 = <<>> /\ retornos = <<>> /\ escritos = {}
    /\ visitados = <<>> /\ meta = <<>>

ProcIdle == df_in = <<>> /\ df_st = <<>> /\ df_out = <<>>

CampoIdle == campo_in = <<>> /\ campo_out = <<>>

InitProc ==
    /\ MainIdle /\ CampoIdle
    /\ df_in \in {<<t>> : t \in Tabelas}
    /\ df_st = <<>>
    /\ df_out = <<>>

\* df = df.copy(); df.columns = [c.upper() for c in df.columns]
PassoUpper ==
    /\ df_in # <<>> /\ Len(df_st) = 0
    /\ df_st' = <<UpperColumns(df_in[1])>>
    /\ UNCHANGED << mainVars, df_in, df_out, campoVars >>

\* Filtro 1
PassoFiltroSUS ==
    /\ Len(df_st) = 1
    /\ df_st' = Append(df_st, FiltroSUS(df_st[1]))
    /\ UNCHANGED << mainVars, df_in, df_out, campoVars >>

\* Filtro 2
PassoFiltroAtivas ==
    /\ Len(df_st) = 2
    /\ df_st' = Append(df_st, FiltroAtivas(df_st[2]))
    /\ UNCHANGED << mainVars, df_in, df_out, campoVars >>

\* The loop over df.iterrows() and the return
PassoRegistros ==
    /\ Len(df_st) = 3 /\ df_out = <<>>
    /\ df_out' = <<Registros(df_st[3].rows)>>
    /\ UNCHANGED << mainVars, df_in, df_st, campoVars >>

NextProc ==
    \/ PassoUpper
    \/ PassoFiltroSUS
    \/ PassoFiltroAtivas
    \/ PassoRegistros

SpecProc == InitProc /\ [][NextProc]_vars

(***************************************************************************)
(* One call of campo                                                       *)
(***************************************************************************)

CampoNomes == {"A", "B", "C"}

\* The last two cells hold a lone no-break space (U+00A0) and a value between
\* a file separator (U+001C) and a next-line character (U+0085).
CampoCelulas ==
    {NULL, <<"">>, <<" ">>, <<"nan">>, <<" None ">>, <<"NaN">>, <<"x">>, <<" y z\t">>,
     <<" ">>, <<"w">>}

\* Rows over every subset of the field names.
CampoLinhas == UNION {[S -> CampoCelulas] : S \in SUBSET CampoNomes}

\* Candidate lists: the sequences of distinct field names.
CampoListas ==
    {cs \in UNION {[1..n -> CampoNomes] : n \in 0..Cardinality(CampoNomes)} :
        \A i, j \in DOMAIN cs : cs[i] = cs[j] => i = j}

CampoDefaults == {"", "02"}

InitCampo ==
    /\ MainIdle /\ ProcIdle
    /\ campo_in \in {<<[row |-> r, candidatos |-> cs, default |-> d]>> :
                        r \in CampoLinhas, cs \in CampoListas, d \in CampoDefaults}
    /\ campo_out = <<>>

ChamaCampo ==
    /\ campo_in # <<>> /\ campo_out = <<>>
    /\ campo_out' = <<campo(campo_in[1].row, campo_in[1].candidatos, campo_in[1].default)>>
    /\ UNCHANGED << mainVars, procVars, campo_in >>

NextCampo == ChamaCampo

SpecCampo == InitCampo /\ [][NextCampo]_vars

(***************************************************************************)
(* main: the loop over UFS and the summary                                 *)
(***************************************************************************)

UFSet == {UFS[i] : i \in 1..Len(UFS)}

\* What a previous run may have left in data/cnes/{UF}.json.
RegistrosAntigos ==
    << [cnes |-> "0000001", nome |-> "Posto Antigo", nivel |-> "primaria",
        perfil |-> "Posto de Saúde", gestao |-> "Municipal", ibge6 |-> "330455",
        logradouro |-> "", bairro |-> "", cep |-> "", tel |-> ""] >>

\* DataFrames download_uf returns in a run: two records, one record (one row
\* filtered out), no record (every row skipped), and an empty table.
TabelasMain ==
    { [columns |-> ColunasDe(SchGestao),
       rows    |-> << "CNES" :> <<"2269311">> @@ "NO_FANTASIA" :> <<"HOSPITAL SÃO LUCAS">>
                        @@ "TP_GESTAO" :> <<"M">>,
                      "CNES" :> <<"2269311">> @@ "NO_FANTASIA" :> <<"HOSPITAL SÃO LUCAS">>
                        @@ "TP_GESTAO" :> <<"E">> >>],
      [columns |-> ColunasDe(SchGestao),
       rows    |-> << "CNES" :> <<"2269311">> @@ "NO_FANTASIA" :> <<"HOSPITAL SÃO LUCAS">>
                        @@ "TP_GESTAO" :> <<"S">>,
                      "CNES" :> <<"2269311">> @@ "NO_FANTASIA" :> <<"HOSPITAL SÃO LUCAS">>
                        @@ "TP_GESTAO" :> <<"D">> >>],
      [columns |-> ColunasDe(SchSemCnes),
       rows    |-> << "NO_FANTASIA" :> <<"POSTO A">> @@ "TP_UNIDADE" :> <<"05">> >>],
      [columns |-> ColunasDe(SchGestao), rows |-> <<>>] }

\* download_uf(uf, year, month): None (<<>>) or a DataFrame (<<df>>)
download_uf == {<<>>} \cup {<<t>> : t \in TabelasMain}

\* sum(resumo.values())
RECURSIVE Soma(_)
Soma(d) ==
    IF DOMAIN d = {} THEN 0
    ELSE LET k == CHOOSE k \in DOMAIN d : TRUE
         IN d[k] + Soma([j \in DOMAIN d \ {k} |-> d[j]])

\* resumo[uf] = n
DictSet(d, k, v) == [j \in DOMAIN d \cup {k} |-> IF j = k THEN v ELSE d[j]]

Init ==
    /\ pc = "loop"
    /\ idx = 1
    /\ resumo = <<>>
    /\ falhas = <<>>
    /\ disco0 \in [UFSet -> {<<>>, <<RegistrosAntigos>>}]
    /\ disco = disco0
    /\ retornos = <<>>
    /\ escritos = {}
    /\ visitados = <<>>
    /\ meta = <<>>
    /\ ProcIdle /\ CampoIdle

\* Variant: a failed download ends the loop.
IteracaoFalha_Aborta ==
    /\ pc = "loop" /\ idx <= Len(UFS)
    /\ LET uf == UFS[idx]
       IN /\ visitados' = Append(visitados, uf)
          /\ retornos' = DictSet(retornos, uf, <<>>)
          /\ falhas' = Append(falhas, uf)
          /\ resumo' = DictSet(resumo, uf, 0)
    /\ idx' = Len(UFS) + 1
    /\ UNCHANGED << pc, disco, disco0, escritos, meta, procVars, campoVars >>

\* Variant: a failed download writes an empty list to the region's file.
IteracaoFalha_Trunca ==
    /\ pc = "loop" /\ idx <= Len(UFS)
    /\ LET uf == UFS[idx]
       IN /\ visitados' = Append(visitados, uf)
          /\ retornos' = DictSet(retornos, uf, <<>>)
          /\ falhas' = Append(falhas, uf)
          /\ resumo' = DictSet(resumo, uf, 0)
          /\ disco' = [disco EXCEPT ![uf] = << <<>> >>]
    /\ idx' = idx + 1
    /\ UNCHANGED << pc, disco0, escritos, meta, procVars, campoVars >>

\* One iteration in which download_uf returns None:
\* falhas.append(uf); resumo[uf] = 0; continue
IteracaoFalha ==
    /\ pc = "loop" /\ idx <= Len(UFS)
    /\ LET uf == UFS[idx]
       IN /\ <<>> \in download_uf
          /\ visitados' = Append(visitados, uf)
          /\ retornos' = DictSet(retornos, uf, <<>>)
          /\ falhas' = Append(falhas, uf)
          /\ resumo' = DictSet(resumo, uf, 0)
    /\ idx' = idx + 1
    /\ UNCHANGED << pc, disco, disco0, escritos, meta, procVars, campoVars >>

\* Variant: the count recorded is the number of rows downloaded.
IteracaoSucesso_ContaLinhas ==
    /\ pc = "loop" /\ idx <= Len(UFS)
    /\ \E ret \in download_uf \ {<<>>} :
         LET uf == UFS[idx]
             registros == processar_df(ret[1], uf)
         IN /\ visitados' = Append(visitados, uf)
            /\ retornos' = DictSet(retornos, uf, ret)
            /\ disco' = [disco EXCEPT ![uf] = <<registros>>]
            /\ escritos' = escritos \cup {uf}
            /\ resumo' = DictSet(resumo, uf, Len(ret[1].rows))
    /\ idx' = idx + 1
    /\ UNCHANGED << pc, falhas, disco0, meta, procVars, campoVars >>

\* One iteration in which download_uf returns a DataFrame:
\* registros = processar_df(df, uf); json.dump to {uf}.json; resumo[uf] = len(registros)
IteracaoSucesso ==
    /\ pc = "loop" /\ idx <= Len(UFS)
    /\ \E ret \in download_uf \ {<<>>} :
         LET uf == UFS[idx]
             registros == processar_df(ret[1], uf)
         IN /\ visitados' = Append(visitados, uf)
            /\ retornos' = DictSet(retornos, uf, ret)
            /\ disco' = [disco EXCEPT ![uf] = <<registros>>]
            /\ escritos' = escritos \cup {uf}
            /\ resumo' = DictSet(resumo, uf, Len(registros))
    /\ idx' = idx + 1
    /\ UNCHANGED << pc, falhas, disco0, meta, procVars, campoVars >>

\* After the loop: meta = {...}; json.dump(meta) to _meta.json
EscreveMeta ==
    /\ pc = "loop" /\ idx > Len(UFS)
    /\ meta' = <<[totais |-> resumo, total_geral |-> Soma(resumo), falhas |-> falhas]>>
    /\ pc' = "done"
    /\ UNCHANGED << idx, resumo, falhas, disco, disco0, retornos, escritos,
                    visitados, procVars, campoVars >>

Next ==
    \/ IteracaoFalha
    \/ IteracaoSucesso
    \/ EscreveMeta

Spec == Init /\ [][Next]_vars

\* main() is a sequential program: it keeps running until it returns.
SpecJusto == Spec /\ WF_vars(Next)

(***************************************************************************)
(* Properties                                                              *)
(***************************************************************************)

\* ---- main ----

Ausentes == {u \in DOMAIN retornos : retornos[u] = <<>>}
Obtidos == {u \in DOMAIN retornos : retornos[u] # <<>>}

C1_Final ==
    /\ meta # <<>>
    /\ visitados = UFS
    /\ DOMAIN retornos = UFSet
    /\ falhas = SelectSeq(UFS, LAMBDA u : u \in Ausentes)
    /\ meta[1].falhas = falhas
    /\ escritos = Obtidos

\* C1: whatever download_uf returns for each region, main() visits every
\* region once, in the order of UFS, a None never ends the loop early, and the
\* summary is eventually written; when it is, falhas holds exactly the regions
\* whose download returned None (in list order) and an output file was written
\* for exactly the other regions.
C1_RunCompletes ==
    /\ [](pc = "loop" => visitados = SubSeq(UFS, 1, idx - 1))
    /\ [](pc = "done" => C1_Final)
    /\ <>(pc = "done")

C1_Witness ==
    /\ pc = "done"
    /\ Ausentes # {} /\ Obtidos # {}
    /\ \E i \in 1..(Len(UFS) - 1) : UFS[i] \in Ausentes /\ UFS[i + 1] \in Obtidos

\* C2: a region whose download returned None has no write to its output file:
\* the file holds what it held before the run, whatever happened to the others.
C2_StaleUntouched ==
    \A u \in Ausentes : disco[u] = disco0[u] /\ u \notin escritos

C2_Witness ==
    /\ pc = "done"
    /\ \E u \in Ausentes : disco0[u] = <<RegistrosAntigos>>
    /\ \E v \in Obtidos : disco0[v] = <<RegistrosAntigos>> /\ disco[v] # disco0[v]

RECURSIVE SomaUFs(_, _)
SomaUFs(totais, n) == IF n = 0 THEN 0 ELSE totais[UFS[n]] + SomaUFs(totais, n - 1)

\* C3: in the summary, the count of every region whose download succeeded is
\* the number of records written to that region's file, and total_geral is the
\* sum of the per-region counts, for any mix of succeeded and failed regions.
C3_CountsMatch ==
    meta # <<>> =>
        /\ DOMAIN meta[1].totais = UFSet
        /\ \A u \in Obtidos : /\ disco[u] # <<>>
                              /\ meta[1].totais[u] = Len(disco[u][1])
        /\ meta[1].total_geral = SomaUFs(meta[1].totais, Len(UFS))

C3_Witness ==
    /\ meta # <<>>
    /\ Ausentes # {}
    /\ \E u \in Obtidos : meta[1].totais[u] = 1 /\ Len(retornos[u][1].rows) = 2
    /\ meta[1].total_geral >= 3

\* ---- processar_df ----

PresentesEm(aliases, columns) == {i \in 1..Len(aliases) : aliases[i] \in columns}

\* The first alias, in list order, that is a column of the table.
PrimeiroAlias(aliases, columns) ==
    aliases[CHOOSE i \in PresentesEm(aliases, columns) :
                \A j \in PresentesEm(aliases, columns) : i <= j]

PassaAfiliacao(D, r) ==
    \/ PresentesEm(ALIASES_GESTAO, D.columns) = {}
    \/ /\ PresentesEm(ALIASES_GESTAO, D.columns) # {}
       /\ r[PrimeiroAlias(ALIASES_GESTAO, D.columns)] \in {<<"M">>, <<"E">>, <<"D">>}

PassaAtiva(D, r) ==
    \/ PresentesEm(ALIASES_DESATIVACAO, D.columns) = {}
    \/ /\ PresentesEm(ALIASES_DESATIVACAO, D.columns) # {}
       /\ r[PrimeiroAlias(ALIASES_DESATIVACAO, D.columns)]
              \in {NULL, <<"">>, <<"0">>, <<"00000000">>}

TemCodigo(r) == campo(r, ALIASES_CNES, "") # ""
TemNome(r) == campo(r, ALIASES_FANTASIA, "") # "" \/ campo(r, ALIASES_RAZAO, "") # ""

\* The rows of the upper-cased table D that are to be normalized.
Mantidas(D) ==
    SelectSeq(D.rows, LAMBDA r : /\ PassaAfiliacao(D, r) /\ PassaAtiva(D, r)
                                 /\ TemCodigo(r) /\ TemNome(r))

\* C4: the result of processar_df is, in input row order, the normalization of
\* exactly the rows that pass the affiliation filter, pass the active-status
\* filter and resolve a non-empty facility code and a non-empty commercial or
\* legal name; a table with no facility-code column gives no record, and the
\* 100-row table (10 without code, 5 with governance "S") gives 85 records.
C4_ExactlyValidRows ==
    df_out # <<>> =>
        LET D == df_st[1]
            M == Mantidas(D)
        IN /\ Len(df_out[1]) = Len(M)
           /\ \A i \in 1..Len(M) : df_out[1][i] = RegistroDe(M[i])
           /\ (PresentesEm(ALIASES_CNES, D.columns) = {} => df_out[1] = <<>>)
           /\ (df_in[1] = Tabela100 => Len(df_out[1]) = 85)

C4_Witness ==
    /\ df_in = <<Tabela100>>
    /\ df_out # <<>>
    /\ Len(df_out[1]) = 85

\* C5: every record produced by processar_df has a "cnes" of exactly 7
\* characters, whatever the length of the resolved facility code.
C5_IdAlways7 ==
    df_out # <<>> => \A i \in 1..Len(df_out[1]) : Len(df_out[1][i].cnes) = 7

\* C6: every record produced by processar_df has an "ibge6" that is empty or
\* exactly 6 characters long, whatever the length of the resolved code.
C6_Ibge6EmptyOr6 ==
    df_out # <<>> => \A i \in 1..Len(df_out[1]) : Len(df_out[1][i].ibge6) \in {0, 6}

\* C8: after the affiliation filter the table holds, when it has a governance
\* column under some alias, exactly the rows whose value in that column is
\* "M", "E" or "D" (in their order), and every row when it has none.
C8_AffiliationTriState ==
    Len(df_st) >= 2 =>
        LET antes == df_st[1]
            depois == df_st[2]
        IN /\ depois.columns = antes.columns
           /\ IF PresentesEm(ALIASES_GESTAO, antes.columns) = {}
              THEN depois.rows = antes.rows
              ELSE depois.rows =
                     SelectSeq(antes.rows,
                        LAMBDA r : r[PrimeiroAlias(ALIASES_GESTAO, antes.columns)]
                                      \in {<<"M">>, <<"E">>, <<"D">>})

C8_Witness ==
    /\ df_in = <<TabelaMSE>>
    /\ Len(df_st) >= 2
    /\ [i \in 1..Len(df_st[2].rows) |-> df_st[2].rows[i]["TP_GESTAO"]] = << <<"M">>, <<"E">> >>

NIVEIS == {"primaria", "secundaria", "terciaria"}
GESTOES == {"Municipal", "Estadual"}

\* C9: in every record "nivel" is one of the three tiers and "gestao" one of
\* the two governance labels; a row whose facility-type code has no entry in
\* TP_UNIDADE_MAP gets exactly ("primaria", "Unidade de Saúde"), and a
\* governance code outside the 3-entry label map gets "Municipal".
C9_Enumerations ==
    df_out # <<>> =>
        LET M == Mantidas(df_st[1])
        IN /\ \A i \in 1..Len(df_out[1]) :
                /\ df_out[1][i].nivel \in NIVEIS
                /\ df_out[1][i].gestao \in GESTOES
                /\ i <= Len(M) =>
                     LET tp == zfill(campo(M[i], ALIASES_TP_UNIDADE, "02"), 2)
                     IN tp \notin DOMAIN TP_UNIDADE_MAP =>
                          /\ df_out[1][i].nivel = "primaria"
                          /\ df_out[1][i].perfil = "Unidade de Saúde"
           /\ \A g \in {"S", "X", "", "m", "Municipal"} : GestaoGet(g) = "Municipal"

C9_Witness ==
    /\ df_out # <<>>
    /\ \E i \in 1..Len(df_out[1]) :
          /\ df_out[1][i].perfil = "Unidade de Saúde"
          /\ campo(Mantidas(df_st[1])[i], ALIASES_TP_UNIDADE, "02") = "99"

\* C10: the active-status filter uses one column, the first of DT_DESATIVACAO,
\* DT_DESATIVACAO_, DTDESATIVACAO that the table has: it keeps exactly the rows
\* whose value there is null, "", "0" or "00000000", whatever any later
\* deactivation column holds, and keeps every row when the table has none.
C10_FirstDeactivationColumn ==
    Len(df_st) >= 3 =>
        LET antes == df_st[2]
            depois == df_st[3]
        IN /\ depois.columns = antes.columns
           /\ IF PresentesEm(ALIASES_DESATIVACAO, antes.columns) = {}
              THEN depois.rows = antes.rows
              ELSE depois.rows =
                     SelectSeq(antes.rows,
                        LAMBDA r : r[PrimeiroAlias(ALIASES_DESATIVACAO, antes.columns)]
                                      \in {NULL, <<"">>, <<"0">>, <<"00000000">>})

C10_Witness ==
    /\ Len(df_st) >= 3
    /\ {"DT_DESATIVACAO_", "DTDESATIVACAO"} \subseteq df_st[2].columns
    /\ \E i \in 1..Len(df_st[3].rows) :
          /\ df_st[3].rows[i]["DT_DESATIVACAO_"] = NULL
          /\ df_st[3].rows[i]["DTDESATIVACAO"] = <<"20200101">>
    /\ Len(df_st[3].rows) < Len(df_st[2].rows)

\* ---- campo ----

\* str(v) of any cell: a null prints as "None".
Texto(cell) == IF cell = NULL THEN "None" ELSE cell[1]

\* The positions of the candidates whose field is present and whose trimmed
\* value is not "", "nan" or "None".
Qualificados(row, cs) ==
    {i \in 1..Len(cs) : /\ cs[i] \in DOMAIN row
                        /\ strip(Texto(row[cs[i]])) \notin {"", "nan", "None"}}

\* C7: campo returns the trimmed value of the first candidate, in list order,
\* whose field is present and whose trimmed value is not a null sentinel,
\* whatever the later candidates hold, and the default when there is none.
C7_FirstQualifying ==
    campo_out # <<>> =>
        LET a == campo_in[1]
            Q == Qualificados(a.row, a.candidatos)
        IN IF Q = {}
           THEN campo_out[1] = a.default
           ELSE LET k == CHOOSE i \in Q : \A j \in Q : i <= j
                IN campo_out[1] = strip(Texto(a.row[a.candidatos[k]]))

C7_Witness ==
    /\ campo_out = <<"x">>
    /\ campo_in[1].candidatos = <<"A", "B", "C">>
    /\ campo_in[1].row = [c \in {"A", "B", "C"} |->
                            IF c = "A" THEN <<" ">> ELSE IF c = "B" THEN <<"x">> ELSE <<" y z\t">>]

====
